---- MODULE Spec2Model ----
(***************************************************************************)
(* A model of the ThingsBoard telemetry proxy INNOWATT_BACKEND.py: the     *)
(* login loop get_auth_token, the fetcher fetch_telemetry with its single  *)
(* token refresh, the key normaliser, and the three telemetry handlers.    *)
(*                                                                         *)
(* A request is followed through its blocking calls: every connectivity    *)
(* probe, login POST and telemetry GET is one step whose outcome the       *)
(* upstream chooses.  Calls are counted as calls of the HTTP client        *)
(* (http.post / http.get); what the transport adapter of lines 58-66 does  *)
(* inside one such call is not counted.  The clock-derived fields of the   *)
(* bodies (timestamp, start_date, end_date) and the query parameters are   *)
(* left out: no upstream outcome depends on them here.                     *)
(***************************************************************************)
EXTENDS Integers, Sequences, FiniteSets, TLC

\* ------------------------------------------------------------------ bounds

\* The longest series an upstream response carries for one key.
MaxPoints == 2

\* The most keys a response carries when only its key set matters.
MaxKeys == 2

\* ---------------------------------------------------- Python / JSON values

\* Values are tagged: None, a number, or a string (a sequence of characters).
None == [t |-> "None", n |-> 0, s |-> <<>>]

Num(n) == [t |-> "num", n |-> n, s |-> <<>>]

Str(s) == [t |-> "str", n |-> 0, s |-> s]

\* Python truthiness: None, 0 and "" are false.
Truthy(v) == \/ v.t = "num" /\ v.n # 0
             \/ v.t = "str" /\ v.s # <<>>

Digits == <<"0", "1", "2", "3", "4", "5", "6", "7", "8", "9">>

IsDigit(c) == \E i \in 1..Len(Digits) : Digits[i] = c

DigitVal(c) == (CHOOSE i \in 1..Len(Digits) : Digits[i] = c) - 1

RECURSIVE ParseDigits(_)
ParseDigits(s) == IF s = <<>> THEN 0
                  ELSE 10 * ParseDigits(SubSeq(s, 1, Len(s) - 1)) + DigitVal(s[Len(s)])

\* float(v): a number converts to itself, a string of decimal digits to its
\* value; any other string is a ValueError and None a TypeError.  (Only
\* unsigned integer literals are drawn as numeric strings.)
FloatError(v) == CASE v.t = "None" -> "TypeError"
                   [] v.t = "num" -> "none"
                   [] v.t = "str" -> IF v.s # <<>> /\ \A i \in 1..Len(v.s) : IsDigit(v.s[i])
                                     THEN "none" ELSE "ValueError"

Float(v) == IF v.t = "num" THEN v.n ELSE ParseDigits(v.s)

\* ------------------------------------------------------------ key mapping

CanonicalKeys == {"voltage", "current", "power", "energy", "frequency", "powerfact", "rmp"}

TELEMETRY_KEY_MAPPING ==
    [k \in CanonicalKeys |->
        CASE k = "voltage"   -> <<"Voltage", "voltage", "VOLTAGE">>
          [] k = "current"   -> <<"Current", "current", "CURRENT">>
          [] k = "power"     -> <<"Power", "power", "POWER">>
          [] k = "energy"    -> <<"Energy", "energy", "ENERGY">>
          [] k = "frequency" -> <<"Frequency", "frequency", "FREQUENCY">>
          [] k = "powerfact" -> <<"PowerFact", "PF", "powerfactor", "Power_Factor">>
          [] k = "rmp"       -> <<"RMP", "rmp", "Rmp">>]

\* TELEMETRY_KEY_MAPPING.get(key, [key])
MappingGet(key) == IF key \in CanonicalKeys THEN TELEMETRY_KEY_MAPPING[key] ELSE <<key>>

\* The result of find_matching_key when no key matches (Python's None).
NoKey == "<None>"

\* The mutant of find_matching_key: the scan keeps the last match.
RECURSIVE find_matching_key_last(_, _)
find_matching_key_last(data, possible_keys) ==
    IF possible_keys = <<>> THEN NoKey
    ELSE LET n == Len(possible_keys) IN
         IF possible_keys[n] \in DOMAIN data THEN possible_keys[n]
         ELSE find_matching_key_last(data, SubSeq(possible_keys, 1, n - 1))

\* for key in possible_keys: if key in data: return key / return None
RECURSIVE find_matching_key(_, _)
find_matching_key(data, possible_keys) ==
    IF possible_keys = <<>> THEN NoKey
    ELSE IF Head(possible_keys) \in DOMAIN data THEN Head(possible_keys)
    ELSE find_matching_key(data, Tail(possible_keys))

\* ------------------------------------------------------ upstream responses

\* A record of a series is a mapping that may lack "ts", "value" or both.
\* Three are drawn: a well-formed record, one whose value is not numeric,
\* and the empty mapping {}, which lacks both fields.
Records == { [ts |-> Num(1), value |-> Str(<<"1", "2">>)],
             [ts |-> Num(2), value |-> Str(<<"x">>)],
             <<>> }

SeqsUpTo(S, n) == UNION { [1..k -> S] : k \in 0..n }

Series == SeqsUpTo(Records, MaxPoints)

\* The keys the telemetry responses are drawn over: the first variant of
\* power and a later variant of voltage.
UpstreamKeys == {"Power", "voltage"}

\* The JSON bodies of a telemetry GET: any subset of the keys, each with a
\* series.  The empty mapping {} is one of them.
Bodies == UNION { [K -> Series] : K \in SUBSET UpstreamKeys }

\* ---------------------------------------------------------- key normaliser

\* get_value_and_timestamp(data, standard_key): (value, ts), or the exception
\* that leaves the function.  data.get(actual_key, [{}])[0] indexes the list
\* that is there: the [{}] default is used only for a key that is absent,
\* and actual_key is a key of data.
get_value_and_timestamp(data, standard_key) ==
    LET possible_keys == MappingGet(standard_key)
        actual_key == find_matching_key(data, possible_keys)
    IN IF actual_key = NoKey
       THEN [raised |-> "none", value |-> Num(0), ts |-> None]
       ELSE IF Len(data[actual_key]) = 0
       THEN [raised |-> "IndexError", value |-> Num(0), ts |-> None]
       ELSE LET entry == data[actual_key][1]
                raw == IF "value" \in DOMAIN entry THEN entry.value ELSE Num(0)
            IN [raised |-> "none",
                value |-> IF FloatError(raw) = "none" THEN Num(Float(raw)) ELSE Num(0),
                ts |-> IF "ts" \in DOMAIN entry THEN entry.ts ELSE None]

\* The order in which process_telemetry_data reads the seven metrics.
ProcessOrder == <<"power", "voltage", "current", "frequency", "rmp", "energy", "powerfact">>

\* process_telemetry_data(telemetry_data) for a non-empty mapping: the flat
\* object, or the first exception one of the seven extractions raises.
process_telemetry_data(telemetry_data) ==
    LET g(k) == get_value_and_timestamp(telemetry_data, k)
        failing == { i \in 1..Len(ProcessOrder) : g(ProcessOrder[i]).raised # "none" }
        first == CHOOSE i \in failing : \A j \in failing : i <= j
    IN IF failing # {}
       THEN [raised |-> g(ProcessOrder[first]).raised, json |-> <<>>]
       ELSE [raised |-> "none",
             json |-> [power |-> g("power").value,
                       power_timestamp |-> g("power").ts,
                       voltage |-> g("voltage").value,
                       voltage_timestamp |-> g("voltage").ts,
                       current |-> g("current").value,
                       current_timestamp |-> g("current").ts,
                       frequency |-> g("frequency").value,
                       frequency_timestamp |-> g("frequency").ts,
                       rmp |-> g("rmp").value,
                       rmp_timestamp |-> g("rmp").ts,
                       energy |-> g("energy").value,
                       energy_timestamp |-> g("energy").ts,
                       powerfactor |-> g("powerfact").value,
                       powerfactor_timestamp |-> g("powerfact").ts,
                       online |-> TRUE]]

\* The ngrok_url loop of get_telemetry: the value of the first record of the
\* first of the three spellings that is present with a non-empty list and
\* whose first record has a value (a KeyError moves on to the next spelling).
RECURSIVE ngrok_url(_, _)
ngrok_url(telemetry_data, keys) ==
    IF keys = <<>> THEN None
    ELSE LET key == Head(keys) IN
         IF /\ key \in DOMAIN telemetry_data
            /\ Len(telemetry_data[key]) > 0
            /\ "value" \in DOMAIN telemetry_data[key][1]
         THEN telemetry_data[key][1].value
         ELSE ngrok_url(telemetry_data, Tail(keys))

\* The five metrics read beside power, in the order of the point literal.
Companions == <<"voltage", "current", "frequency", "rmp", "energy">>

\* find_matching_key(telemetry_data, keys) or '<canonical>'
actual_key_or(telemetry_data, canonical) ==
    LET m == find_matching_key(telemetry_data, MappingGet(canonical))
    IN IF m = NoKey THEN canonical ELSE m

\* telemetry_data.get(key, [])
GetList(telemetry_data, key) ==
    IF key \in DOMAIN telemetry_data THEN telemetry_data[key] ELSE <<>>

\* The loop of the series handlers: one point per index of the power series
\* (Python's index i is i - 1 here).  A subscript ['ts'] or ['value'] of a
\* record that lacks the field is a KeyError, which leaves the handler.
SeriesPoints(telemetry_data) ==
    LET lst(c) == GetList(telemetry_data, actual_key_or(telemetry_data, c))
        max_points == Len(lst("power"))
        pad(c, i) == IF i <= Len(lst(c)) THEN lst(c)[i].value ELSE Num(0)
        raises(i) ==
            \/ "ts" \notin DOMAIN lst("power")[i]
            \/ "value" \notin DOMAIN lst("power")[i]
            \/ \E j \in 1..Len(Companions) :
                  /\ i <= Len(lst(Companions[j]))
                  /\ "value" \notin DOMAIN lst(Companions[j])[i]
    IN IF \E i \in 1..max_points : raises(i)
       THEN [raised |-> "KeyError", data |-> <<>>]
       ELSE [raised |-> "none",
             data |-> [i \in 1..max_points |->
                         [timestamp |-> lst("power")[i].ts,
                          power |-> lst("power")[i].value,
                          voltage |-> pad("voltage", i),
                          current |-> pad("current", i),
                          frequency |-> pad("frequency", i),
                          rmp |-> pad("rmp", i),
                          energy |-> pad("energy", i)]]]

\* The loop of get_monthly_telemetry, the same text as the weekly one.
MonthlyPoints(telemetry_data) == SeriesPoints(telemetry_data)

\* ---------------------------------------------------------------- responses

NoResponse == [status |-> 0, raised |-> "none", json |-> <<>>]

\* jsonify({"error": ..., "online": False}), code
ErrorResponse(msg, code) ==
    [status |-> code, raised |-> "none", json |-> [error |-> msg, online |-> FALSE]]

\* An exception that leaves a view function: the framework answers 500 with
\* its own error page, not with the handler's JSON.
Unhandled(exc) == [status |-> 500, raised |-> exc, json |-> <<>>]

Endpoints == {"current", "weekly", "monthly"}

FetchErrorText(endpoint) ==
    CASE endpoint = "current" -> "Could not fetch telemetry"
      [] endpoint = "weekly"  -> "Could not fetch weekly telemetry"
      [] endpoint = "monthly" -> "Could not fetch monthly telemetry"

\* get_telemetry after a non-empty fetch.
CurrentBody(telemetry_data) ==
    LET processed == process_telemetry_data(telemetry_data)
    IN IF processed.raised # "none" THEN Unhandled(processed.raised)
       ELSE [status |-> 200, raised |-> "none",
             json |-> processed.json @@
                      [ngrok_url |-> ngrok_url(telemetry_data,
                                               <<"ngrok_url", "Ngrok_Url", "NGROK_URL">>)]]

\* get_weekly_telemetry after a non-empty fetch.
WeeklyBody(telemetry_data) ==
    LET p == SeriesPoints(telemetry_data)
    IN IF p.raised # "none" THEN Unhandled(p.raised)
       ELSE [status |-> 200, raised |-> "none",
             json |-> [data |-> p.data, interval |-> "hourly", online |-> TRUE]]

\* get_monthly_telemetry after a non-empty fetch.
MonthlyBody(telemetry_data) ==
    LET p == MonthlyPoints(telemetry_data)
    IN IF p.raised # "none" THEN Unhandled(p.raised)
       ELSE [status |-> 200, raised |-> "none",
             json |-> [data |-> p.data, interval |-> "daily", online |-> TRUE]]

\* What fetch_telemetry returns: None, or the parsed JSON mapping.
NoData == [isNone |-> TRUE, json |-> <<>>]

Data(body) == [isNone |-> FALSE, json |-> body]

\* "if not telemetry_data": None and the empty mapping are both false.
Falsy(fetched) == fetched.isNone \/ DOMAIN fetched.json = {}

\* The rest of a handler once fetch_telemetry has returned.
AfterFetch(endpoint, fetched) ==
    IF Falsy(fetched) THEN ErrorResponse(FetchErrorText(endpoint), 500)
    ELSE CASE endpoint = "current" -> CurrentBody(fetched.json)
           [] endpoint = "weekly"  -> WeeklyBody(fetched.json)
           [] endpoint = "monthly" -> MonthlyBody(fetched.json)

\* ------------------------------------------------------------------- state

VARIABLES
    config,           \* the module globals read by the handlers (lines 39-42)
    pc,               \* where the request in progress is blocked
    endpoint,         \* the handler serving it
    token,            \* the handler's local token
    new_token,        \* fetch_telemetry's local new_token
    auth,             \* the get_auth_token call in progress, or the last one
    auth_calls,       \* get_auth_token calls made by fetch_telemetry
    posts,            \* login POSTs of this request
    bearers,          \* the bearer of each telemetry GET of this request
    replies,          \* the reply to each of them
    telemetry_data,   \* what fetch_telemetry returned
    response,         \* the handler's answer
    refreshedBefore,  \* history: an earlier request refreshed its token
    call,             \* the arguments of a key resolution
    ret               \* and its result

vars == <<config, pc, endpoint, token, new_token, auth, auth_calls, posts,
          bearers, replies, telemetry_data, response, refreshedBefore, call, ret>>

\* os.getenv('TB_JWT_TOKEN'): unset (None) or set.
StaticTokens == {None, Str(<<"s">>)}

\* The token the n-th login POST of a request hands out.
IssuedToken(n) == Str(<<"t", Digits[n + 1]>>)

\* A get_auth_token call: who called it, the loop index, the reply to each
\* POST made, each time.sleep, and the value returned once it has returned.
NewAuthCall(caller) ==
    [caller |-> caller, attempt |-> 0, outcomes |-> <<>>, sleeps |-> <<>>,
     returned |-> FALSE, value |-> None]

NoAuthCall == NewAuthCall("nobody")

\* The replies to the n-th login POST: 200 with a token field, 200 without
\* one, 401, or a failure (a timeout, a connection error, another status
\* that raise_for_status raises on).
LoginOutcomes(n) ==
    { [kind |-> "ok", token |-> IssuedToken(n)],
      [kind |-> "ok", token |-> None],
      [kind |-> "401", token |-> None],
      [kind |-> "error", token |-> None] }

\* The replies to a telemetry GET: 200 with a body, 401, another error
\* status, or a network exception (status 0).
GetOutcomes ==
    { [status |-> 200, json |-> b] : b \in Bodies } \cup
    { [status |-> c, json |-> <<>>] : c \in {401, 500, 0} }

NoCall == [data |-> <<>>, standard_key |-> ""]

Init ==
    /\ config \in { [JWT_TOKEN |-> t, USERNAME |-> Str(<<"u">>), PASSWORD |-> Str(<<"p">>)] :
                    t \in StaticTokens }
    /\ pc = "idle"
    /\ endpoint = "none"
    /\ token = None
    /\ new_token = None
    /\ auth = NoAuthCall
    /\ auth_calls = 0
    /\ posts = 0
    /\ bearers = <<>>
    /\ replies = <<>>
    /\ telemetry_data = NoData
    /\ response = NoResponse
    /\ refreshedBefore = FALSE
    /\ call = NoCall
    /\ ret = NoKey

\* ----------------------------------------------------------------- actions

\* fetch_telemetry returns `fetched` and the handler runs to its answer.
FetchReturn(fetched) ==
    /\ telemetry_data' = fetched
    /\ response' = AfterFetch(endpoint, fetched)
    /\ pc' = "done"

\* The mutant of AuthReturn for the handlers' token check: the handler goes
\* on to fetch_telemetry whatever get_auth_token returned.
AuthReturn_nocheck(value) ==
    /\ config' = config
    /\ IF auth.caller = "handler"
       THEN /\ token' = value
            /\ new_token' = new_token
            /\ response' = response
            /\ pc' = "probe_fetch"
            /\ telemetry_data' = telemetry_data
       ELSE /\ new_token' = value
            /\ token' = token
            /\ IF Truthy(value)
               THEN /\ pc' = "retry_get"
                    /\ UNCHANGED <<telemetry_data, response>>
               ELSE FetchReturn(NoData)

\* The mutant of AuthReturn for statelessness: a refreshed token is stored
\* in the global JWT_TOKEN for the requests to come.
AuthReturn_cache(value) ==
    /\ IF auth.caller = "handler"
       THEN /\ token' = value
            /\ new_token' = new_token
            /\ config' = config
            /\ IF ~Truthy(value)
               THEN /\ response' = ErrorResponse("Authentication failed", 401)
                    /\ pc' = "done"
               ELSE /\ response' = response
                    /\ pc' = "probe_fetch"
            /\ telemetry_data' = telemetry_data
       ELSE /\ new_token' = value
            /\ token' = token
            /\ IF Truthy(value)
               THEN /\ pc' = "retry_get"
                    /\ config' = [config EXCEPT !.JWT_TOKEN = value]
                    /\ UNCHANGED <<telemetry_data, response>>
               ELSE /\ config' = config
                    /\ FetchReturn(NoData)

\* get_auth_token returns `value` to its caller.  The handler answers 401
\* on a false token and goes on to fetch_telemetry otherwise;
\* fetch_telemetry retries the GET with a true new_token, and otherwise
\* raise_for_status raises on the 401 it still holds, so it returns None.
AuthReturn(value) ==
    /\ config' = config
    /\ IF auth.caller = "handler"
       THEN /\ token' = value
            /\ new_token' = new_token
            /\ IF ~Truthy(value)
               THEN /\ response' = ErrorResponse("Authentication failed", 401)
                    /\ pc' = "done"
               ELSE /\ response' = response
                    /\ pc' = "probe_fetch"
            /\ telemetry_data' = telemetry_data
       ELSE /\ new_token' = value
            /\ token' = token
            /\ IF Truthy(value)
               THEN /\ pc' = "retry_get"
                    /\ UNCHANGED <<telemetry_data, response>>
               ELSE FetchReturn(NoData)

\* A handler is entered: token = JWT_TOKEN if JWT_TOKEN else get_auth_token().
Request(e) ==
    /\ pc = "idle"
    /\ endpoint' = e
    /\ IF Truthy(config.JWT_TOKEN)
       THEN /\ token' = config.JWT_TOKEN
            /\ pc' = "probe_fetch"
            /\ auth' = auth
       ELSE /\ token' = token
            /\ pc' = "probe_auth"
            /\ auth' = NewAuthCall("handler")
    /\ UNCHANGED <<config, new_token, auth_calls, posts, bearers, replies,
                   telemetry_data, response, refreshedBefore, call, ret>>

\* get_auth_token, line 83: without connectivity it returns None at once.
ProbeAuth(up) ==
    /\ pc = "probe_auth"
    /\ IF up
       THEN /\ pc' = "login"
            /\ auth' = auth
            /\ UNCHANGED <<config, token, new_token, telemetry_data, response>>
       ELSE /\ auth' = [auth EXCEPT !.returned = TRUE, !.value = None]
            /\ AuthReturn(None)
    /\ UNCHANGED <<endpoint, auth_calls, posts, bearers, replies,
                   refreshedBefore, call, ret>>

\* The mutant of Backoff: a linear delay.
Backoff_linear(attempt) == 2 * attempt

\* time.sleep(2 ** attempt)
Backoff(attempt) == 2 ^ attempt

\* The mutant of LoopContinues: one attempt more.
LoopContinues_more(attempt) == attempt + 1 < 4

\* for attempt in range(3): another pass follows the pass `attempt`.
LoopContinues(attempt) == attempt + 1 < 3

\* The mutant of RetryGet: a 401 on the retried GET refreshes and retries again.
RetryGet_loop(r) ==
    /\ pc = "retry_get"
    /\ bearers' = Append(bearers, new_token)
    /\ replies' = Append(replies, r)
    /\ CASE r.status = 401 ->
              /\ auth_calls' = auth_calls + 1
              /\ auth' = NewAuthCall("fetch")
              /\ pc' = "probe_auth"
              /\ UNCHANGED <<telemetry_data, response>>
         [] r.status = 200 ->
              /\ FetchReturn(Data(r.json))
              /\ UNCHANGED <<auth, auth_calls>>
         [] OTHER ->
              /\ FetchReturn(NoData)
              /\ UNCHANGED <<auth, auth_calls>>
    /\ UNCHANGED <<config, endpoint, token, new_token, posts,
                   refreshedBefore, call, ret>>

\* One pass of the loop of get_auth_token, lines 85-101, given the reply `o`
\* to its http.post.
LoginReply(o) ==
    /\ pc = "login"
    /\ posts' = posts + 1
    /\ LET seen == [auth EXCEPT !.outcomes = Append(@, o)] IN
       CASE o.kind = "401" ->
              /\ auth' = [seen EXCEPT !.returned = TRUE, !.value = None]
              /\ AuthReturn(None)
         [] o.kind = "ok" ->
              /\ auth' = [seen EXCEPT !.returned = TRUE, !.value = o.token]
              /\ AuthReturn(o.token)
         [] o.kind = "error" ->
              LET slept == IF auth.attempt < 2
                           THEN [seen EXCEPT !.sleeps = Append(@, Backoff(auth.attempt))]
                           ELSE seen
              IN IF LoopContinues(auth.attempt)
                 THEN /\ auth' = [slept EXCEPT !.attempt = @ + 1]
                      /\ UNCHANGED <<config, pc, token, new_token, telemetry_data, response>>
                 ELSE /\ auth' = [slept EXCEPT !.returned = TRUE, !.value = None]
                      /\ AuthReturn(None)
    /\ UNCHANGED <<endpoint, auth_calls, bearers, replies,
                   refreshedBefore, call, ret>>

\* http.post(.../api/auth/login): the upstream chooses the reply.
LoginPost == \E o \in LoginOutcomes(posts + 1) : LoginReply(o)

\* fetch_telemetry, line 107: no token or no connectivity returns None.
ProbeFetch(up) ==
    /\ pc = "probe_fetch"
    /\ IF ~Truthy(token) \/ ~up
       THEN FetchReturn(NoData)
       ELSE /\ pc' = "get"
            /\ UNCHANGED <<telemetry_data, response>>
    /\ UNCHANGED <<config, endpoint, token, new_token, auth, auth_calls, posts,
                   bearers, replies, refreshedBefore, call, ret>>

\* The first GET, lines 130-139 and 148-153.
Get(r) ==
    /\ pc = "get"
    /\ bearers' = Append(bearers, token)
    /\ replies' = Append(replies, r)
    /\ CASE r.status = 401 ->
              /\ auth_calls' = auth_calls + 1
              /\ auth' = NewAuthCall("fetch")
              /\ pc' = "probe_auth"
              /\ UNCHANGED <<telemetry_data, response>>
         [] r.status = 200 ->
              /\ FetchReturn(Data(r.json))
              /\ UNCHANGED <<auth, auth_calls>>
         [] OTHER ->
              /\ FetchReturn(NoData)
              /\ UNCHANGED <<auth, auth_calls>>
    /\ UNCHANGED <<config, endpoint, token, new_token, posts,
                   refreshedBefore, call, ret>>

\* The retried GET, lines 140-153: whatever it answers, no further retry.
RetryGet(r) ==
    /\ pc = "retry_get"
    /\ bearers' = Append(bearers, new_token)
    /\ replies' = Append(replies, r)
    /\ IF r.status = 200 THEN FetchReturn(Data(r.json)) ELSE FetchReturn(NoData)
    /\ UNCHANGED <<config, endpoint, token, new_token, auth, auth_calls, posts,
                   refreshedBefore, call, ret>>

\* The answer is sent; the locals of the request are gone with it.
NextRequest ==
    /\ pc = "done"
    /\ pc' = "idle"
    /\ endpoint' = "none"
    /\ token' = None
    /\ new_token' = None
    /\ auth' = NoAuthCall
    /\ auth_calls' = 0
    /\ posts' = 0
    /\ bearers' = <<>>
    /\ replies' = <<>>
    /\ telemetry_data' = NoData
    /\ response' = NoResponse
    /\ refreshedBefore' = (refreshedBefore \/ Truthy(new_token))
    /\ UNCHANGED <<config, call, ret>>

Next ==
    \/ \E e \in Endpoints : Request(e)
    \/ \E up \in BOOLEAN : ProbeAuth(up)
    \/ LoginPost
    \/ \E up \in BOOLEAN : ProbeFetch(up)
    \/ \E r \in GetOutcomes : Get(r)
    \/ \E r \in GetOutcomes : RetryGet(r)
    \/ NextRequest

Spec == Init /\ [][Next]_vars

\* ------------------------------------------------- key resolution, applied

\* Every variant spelling of the mapping table.
AllVariants == UNION { { TELEMETRY_KEY_MAPPING[k][i] : i \in 1..Len(TELEMETRY_KEY_MAPPING[k]) } :
                       k \in CanonicalKeys }

RECURSIVE KeySetsUpTo(_)
KeySetsUpTo(n) == IF n = 0 THEN {{}}
                  ELSE LET smaller == KeySetsUpTo(n - 1)
                       IN smaller \cup { S \cup {k} : S \in smaller, k \in AllVariants }

\* Responses of which only the key set matters: up to MaxKeys of the
\* variant spellings, each with a one-record series.
KeyedBodies == { [k \in K |-> <<[ts |-> Num(1), value |-> Str(<<"1", "2">>)]>>] :
                 K \in KeySetsUpTo(MaxKeys) }

\* find_matching_key(data, TELEMETRY_KEY_MAPPING.get(standard_key, ...)), as
\* lines 167-168 and 273-291 call it.
ResolveKey(data, standard_key) ==
    /\ call = NoCall
    /\ call' = [data |-> data, standard_key |-> standard_key]
    /\ ret' = find_matching_key(data, MappingGet(standard_key))
    /\ UNCHANGED <<config, pc, endpoint, token, new_token, auth, auth_calls, posts,
                   bearers, replies, telemetry_data, response, refreshedBefore>>

NextResolve == \E d \in KeyedBodies, k \in CanonicalKeys : ResolveKey(d, k)

SpecResolve == Init /\ [][NextResolve]_vars

\* ------------------------------------------------------------------ claims

Gets == Len(bearers)

FirstGetWas401 == Len(replies) >= 1 /\ replies[1].status = 401

Static == Truthy(config.JWT_TOKEN)

\* C1, as stated: whenever the first GET of a fetch answers 401, the fetch
\* makes one get_auth_token call and exactly one retried GET carrying the new
\* token; a retried GET that answers 200 gives the fetch its result; and no
\* fetch issues more than two GETs.
C1_ExactlyOneRetriedGet ==
    /\ Gets <= 2
    /\ (pc = "done" /\ FirstGetWas401) =>
          /\ auth_calls = 1
          /\ Gets = 2
          /\ bearers[2] = new_token
    /\ (pc = "done" /\ Len(replies) = 2 /\ replies[2].status = 200) =>
          telemetry_data = Data(replies[2].json)

\* C1, amended: whenever the first GET of a fetch answers 401, the fetch makes
\* exactly one get_auth_token call and at most one retried GET: exactly one,
\* carrying the new token, when that call returns a token, and none when it
\* returns none (the fetch then returns none).  Without a 401 on the first
\* GET there is no get_auth_token call and no second GET.  A retried GET that
\* answers 200 gives the fetch its result, and no fetch issues more than two
\* GETs.
C1_OneRefreshAtMostOneRetry ==
    /\ Gets <= 2
    /\ auth_calls <= 1
    /\ (auth_calls = 1) <=> FirstGetWas401
    /\ (Gets = 2) => (FirstGetWas401 /\ Truthy(new_token) /\ bearers[2] = new_token)
    /\ (pc = "done" /\ FirstGetWas401) =>
          /\ (Gets = 2) <=> Truthy(new_token)
          /\ ~Truthy(new_token) => telemetry_data = NoData
    /\ (pc = "done" /\ Len(replies) = 2 /\ replies[2].status = 200) =>
          telemetry_data = Data(replies[2].json)

\* C1, witness: a fetch whose first GET answered 401 and whose retried GET,
\* sent with the new token, answered 200 with a non-empty body it returned.
C1_Witness ==
    /\ pc = "done"
    /\ FirstGetWas401
    /\ Gets = 2
    /\ bearers[2] = new_token
    /\ bearers[2] # bearers[1]
    /\ replies[2].status = 200
    /\ DOMAIN replies[2].json # {}
    /\ telemetry_data = Data(replies[2].json)

ErrorsOf(outcomes) == { i \in 1..Len(outcomes) : outcomes[i].kind = "error" }

Min(a, b) == IF a <= b THEN a ELSE b

\* C2: a get_auth_token call makes at most 3 login POSTs; only failures other
\* than 401 are followed by another POST, so a 401 or a success is the last
\* one; the sleeps are 1 s after the first failure and 2 s after the second,
\* none after the third; a 401 returns none, three failures return none, and
\* a success returns the token field of its reply; a first or second failure
\* leaves the call running, about to POST again.
C2_LoginLoop ==
    LET o == auth.outcomes
        n == Len(o)
    IN /\ n <= 3
       /\ \A i \in 1..(n - 1) : o[i].kind = "error"
       /\ auth.sleeps = [i \in 1..Min(Cardinality(ErrorsOf(o)), 2) |-> 2 ^ (i - 1)]
       /\ (n >= 1 /\ o[n].kind = "401") => (auth.returned /\ auth.value = None)
       /\ (n >= 1 /\ o[n].kind = "ok") => (auth.returned /\ auth.value = o[n].token)
       /\ (n = 3 /\ o[n].kind = "error") => (auth.returned /\ auth.value = None)
       /\ (n \in 1..2 /\ o[n].kind = "error") => (~auth.returned /\ pc = "login")

\* C2, witness: three failures in a row, slept 1 s then 2 s, none returned.
C2_Witness ==
    /\ Len(auth.outcomes) = 3
    /\ \A i \in 1..3 : auth.outcomes[i].kind = "error"
    /\ auth.sleeps = <<1, 2>>
    /\ auth.returned
    /\ auth.value = None

\* C3: with a static token configured the handler's token is that token and
\* no login POST is made while a request is handled, a 401 on the telemetry
\* GET included.
C3_StaticTokenNeverLogsIn ==
    Static => /\ posts = 0
              /\ pc \notin {"idle"} => token = config.JWT_TOKEN

\* The series a canonical key resolves to in a response: that of the first
\* variant present, and the empty one when none is.
ResolvedSeries(data, k) ==
    LET v == TELEMETRY_KEY_MAPPING[k]
        present == { i \in 1..Len(v) : v[i] \in DOMAIN data }
    IN IF present = {} THEN <<>>
       ELSE data[v[CHOOSE i \in present : \A j \in present : i <= j]]

\* C4: get_value_and_timestamp raises for no response and canonical key; it
\* returns (0.0, None) when no variant of the key is present or the matched
\* list is empty, and value 0.0 when the first record's value is not numeric.
C4_ExtractNeverRaises ==
    ~telemetry_data.isNone =>
        \A k \in CanonicalKeys :
            LET data == telemetry_data.json
                v == TELEMETRY_KEY_MAPPING[k]
                present == { i \in 1..Len(v) : v[i] \in DOMAIN data }
                g == get_value_and_timestamp(data, k)
            IN /\ g.raised = "none"
               /\ (present = {} \/ ResolvedSeries(data, k) = <<>>) =>
                      (g.value = Num(0) /\ g.ts = None)
               /\ (/\ ResolvedSeries(data, k) # <<>>
                   /\ "value" \in DOMAIN ResolvedSeries(data, k)[1]
                   /\ FloatError(ResolvedSeries(data, k)[1].value) # "none") =>
                      g.value = Num(0)

\* The data list is as C5 says it is, for a response whose records carry the
\* fields the list reads.
ShapeOfData(data, out) ==
    LET power == ResolvedSeries(data, "power") IN
    /\ Len(out) = Len(power)
    /\ \A i \in 1..Len(out) :
          /\ out[i].timestamp = power[i].ts
          /\ out[i].power = power[i].value
          /\ \A c \in {"voltage", "current", "frequency", "rmp", "energy"} :
                out[i][c] = IF i <= Len(ResolvedSeries(data, c))
                            THEN ResolvedSeries(data, c)[i].value
                            ELSE Num(0)

\* C5: for every non-empty response the weekly and monthly handlers answer
\* with a data list of as many records as the resolved power series has
\* points, record i carrying the power timestamp and value at i and each
\* companion's value at i, or 0 where its series is shorter or absent.
C5_SeriesShape ==
    (pc = "done" /\ endpoint \in {"weekly", "monthly"} /\ ~Falsy(telemetry_data)) =>
        /\ response.raised = "none"
        /\ response.status = 200
        /\ ShapeOfData(telemetry_data.json, response.json.data)

\* C5, what holds of the code: whenever a series handler answers at all, its
\* data list has that shape.  (It does not answer when a record the list
\* reads lacks "ts" or "value": see C8.)
C5_ShapeWhenAnswered ==
    (pc = "done" /\ endpoint \in {"weekly", "monthly"} /\ ~Falsy(telemetry_data)
       /\ response.raised = "none") =>
        /\ response.status = 200
        /\ ShapeOfData(telemetry_data.json, response.json.data)

C7_ErrorStatuses ==
    pc = "done" =>
        /\ (response.status = 401) <=> ~Truthy(token)
        /\ ~Truthy(token) =>
              /\ response = ErrorResponse("Authentication failed", 401)
              /\ Gets = 0
              /\ telemetry_data = NoData
        /\ (Truthy(token) /\ telemetry_data.isNone) =>
              /\ response.status = 500
              /\ response.raised = "none"
              /\ DOMAIN response.json = {"error", "online"}
              /\ response.json.online = FALSE
        /\ (response.raised = "none" /\ response.json.online) =>
              /\ response.status = 200
              /\ Truthy(token)
              /\ ~telemetry_data.isNone

\* C7, witness: the monthly handler answered 401 after a login that was
\* refused, with no GET made.
C7_Witness ==
    /\ pc = "done"
    /\ endpoint = "monthly"
    /\ posts = 1
    /\ response.status = 401
    /\ response.json.online = FALSE
    /\ Gets = 0

\* C8: every non-empty fetched response, whatever its shape, is answered
\* with a success body by each of the three handlers.
C8_ShapeFailuresAbsorbed ==
    (pc = "done" /\ ~Falsy(telemetry_data)) =>
        /\ response.raised = "none"
        /\ response.status = 200
        /\ response.json.online

\* C9: find_matching_key over a canonical key's variants returns the first
\* variant, in declared order, that is a key of the response, and none when
\* no variant is.
C9_FirstVariantInOrder ==
    call # NoCall =>
        LET v == TELEMETRY_KEY_MAPPING[call.standard_key]
            present == { i \in 1..Len(v) : v[i] \in DOMAIN call.data }
        IN IF present = {} THEN ret = NoKey
           ELSE \E i \in present : ret = v[i] /\ \A j \in present : i <= j

\* C9, witness: a response with the keys "PF" and "Power_Factor" resolved
\* powerfact to "PF".
C9_Witness ==
    /\ call # NoCall
    /\ call.standard_key = "powerfact"
    /\ DOMAIN call.data = {"PF", "Power_Factor"}
    /\ ret = "PF"

\* C10: no step changes the configuration; between requests nothing of the
\* last request is left; and every request takes its token from the same
\* source: the static token if one is configured, a fresh get_auth_token call
\* otherwise.
C10_NoStateAcrossRequests ==
    [][/\ config' = config
       /\ pc' = "idle" =>
             /\ token' = None
             /\ new_token' = None
             /\ auth' = NoAuthCall
             /\ bearers' = <<>>
       /\ (pc = "idle" /\ pc' # "idle") =>
             IF Truthy(config.JWT_TOKEN)
             THEN pc' = "probe_fetch" /\ token' = config.JWT_TOKEN /\ posts' = 0
             ELSE pc' = "probe_auth" /\ auth' = NewAuthCall("handler") /\ posts' = 0]_vars

\* C10, witness: after a request that refreshed its token, the next request
\* is about to send the static token again.
C10_Witness ==
    /\ refreshedBefore
    /\ pc = "get"
    /\ Static
    /\ token = config.JWT_TOKEN
    /\ new_token = None

====
